---- MODULE Spec2Model ----
(***************************************************************************)
(* Ingestion (src/atom/main.py) and retrieval (src/atom/agent.py) of the   *)
(* documentation corpus.                                                   *)
(*                                                                         *)
(* Text is modelled by TLA+ strings, character by character.  The TLA+     *)
(* lexer accepts no backtick inside a string, so the backtick character    *)
(* (U+0060) of the source is written "~" throughout: the four-backtick     *)
(* fence of main.py line 106 reads "~~~~" here.  No text of the model      *)
(* holds a "~" of its own.                                                 *)
(***************************************************************************)
EXTENDS Integers, Sequences, FiniteSets, TLC

VARIABLES
    document,          \* main.py:137  content read from input_data/result.markdown
    pc,                \* position of main()/chunk_code() of the current run
    runs,              \* number of runs of main.py started so far
    faults,            \* number of provider/store failures injected so far
    chunks,            \* main.py:120-125  (name, file_path, content), index = idx + 1
    tasks,             \* main.py:122-127  one process_chunks task per chunk
    processed_chunks,  \* main.py:127  result of the first gather
    insert_results,    \* main.py:129-131  results of the insert tasks run so far
    code_pages,        \* the "code_pages" table of the store, in insertion order
    ret                \* what the last retriever tool call handed to the agent

vars == <<document, pc, runs, faults, chunks, tasks, processed_chunks,
          insert_results, code_pages, ret>>

-----------------------------------------------------------------------------
(* Bounds *)

MaxBlocks == 3
MaxRuns == 2
MaxFaults == 2

-----------------------------------------------------------------------------
(* Python text primitives *)

\* s[i-1:j] of Python: a slice never fails, it is cut to the text
Slice(s, i, j) ==
    LET lo == IF i < 1 THEN 1 ELSE i
        hi == IF j > Len(s) THEN Len(s) ELSE j
    IN IF lo > hi THEN "" ELSE SubSeq(s, lo, hi)

\* s[i-1:i] of Python: the i-th character, as a string of length 1
CharAt(s, i) == Slice(s, i, i)

\* s[i-1:] of Python
StrFrom(s, i) == Slice(s, i, Len(s))

\* s.find(p, i-1) + 1 of Python: first position >= i where p occurs in s, 0 if none
RECURSIVE str_find(_, _, _)
str_find(s, p, i) ==
    IF i + Len(p) - 1 > Len(s) THEN 0
    ELSE IF Slice(s, i, i + Len(p) - 1) = p THEN i
    ELSE str_find(s, p, i + 1)

\* p in s
Contains(s, p) == str_find(s, p, 1) # 0

\* s.rfind(c) + 1 for a single character c
RECURSIVE str_rfind(_, _, _)
str_rfind(s, c, i) ==
    IF i = 0 THEN 0
    ELSE IF CharAt(s, i) = c THEN i
    ELSE str_rfind(s, c, i - 1)

\* s.split(sep, maxsplit); maxsplit = -1 splits at every occurrence
RECURSIVE str_split(_, _, _)
str_split(s, sep, maxsplit) ==
    LET j == str_find(s, sep, 1) IN
    IF maxsplit = 0 \/ j = 0 THEN <<s>>
    ELSE <<Slice(s, 1, j - 1)>>
            \o str_split(StrFrom(s, j + Len(sep)), sep, maxsplit - 1)

\* re.split(pattern, s) for a pattern without metacharacters: the leftmost
\* non-overlapping occurrences of the literal text
re_split(pattern, s) == str_split(s, pattern, -1)

\* s.lstrip(chars): drops every leading character that occurs in chars
RECURSIVE lstrip(_, _)
lstrip(s, chars) ==
    IF s # "" /\ Contains(chars, CharAt(s, 1)) THEN lstrip(StrFrom(s, 2), chars)
    ELSE s

\* sep.join(parts)
RECURSIVE str_join(_, _)
str_join(sep, parts) ==
    IF Len(parts) = 0 THEN ""
    ELSE IF Len(parts) = 1 THEN parts[1]
    ELSE parts[1] \o sep \o str_join(sep, Tail(parts))

-----------------------------------------------------------------------------
(* pathlib.Path (PurePosixPath) *)

\* the components of a path: empty and "." components are dropped
PathParts(s) ==
    LET raw == str_split(s, "/", -1)
        RECURSIVE Keep(_)
        Keep(q) == IF Len(q) = 0 THEN <<>>
                   ELSE (IF Head(q) = "" \/ Head(q) = "." THEN <<>> ELSE <<Head(q)>>)
                            \o Keep(Tail(q))
    IN Keep(raw)

\* the root: "/" for an absolute path, "//" for exactly two leading slashes
PathRoot(s) ==
    IF Slice(s, 1, 2) = "//" /\ Slice(s, 1, 3) # "///" THEN "//"
    ELSE IF Slice(s, 1, 1) = "/" THEN "/"
    ELSE ""

\* str(Path(s))
PathStr(s) ==
    LET r == PathRoot(s) \o str_join("/", PathParts(s)) IN
    IF r = "" THEN "." ELSE r

\* Path(s).name
PathName(s) ==
    LET parts == PathParts(s) IN
    IF Len(parts) = 0 THEN "" ELSE parts[Len(parts)]

\* Path(s).stem: the name without its last suffix
PathStem(s) ==
    LET name == PathName(s)
        i == str_rfind(name, ".", Len(name))
    IN IF 1 < i /\ i < Len(name) THEN Slice(name, 1, i - 1) ELSE name

-----------------------------------------------------------------------------
(* Exceptions *)

\* isinstance(exc, cls) for the exception classes that occur
IsInstance(exc, cls) == cls = "Exception" \/ exc = cls

Returned(v) == [raised |-> "", value |-> v]
Raised(exc) == [raised |-> exc, value |-> ""]

-----------------------------------------------------------------------------
(* Chunk splitting: main.py chunk_code, lines 106-125 *)

\* main.py:106  the two boundary patterns, most specific first
Patterns == << "~~~~\n\n", "~~~\n\n" >>

\* crawl4ai RegexChunking.chunk: every paragraph is split by each pattern in turn
RECURSIVE SplitAll(_, _)
SplitAll(pattern, paragraphs) ==
    IF Len(paragraphs) = 0 THEN <<>>
    ELSE re_split(pattern, Head(paragraphs)) \o SplitAll(pattern, Tail(paragraphs))

RECURSIVE RegexChunking(_, _)
RegexChunking(patterns, paragraphs) ==
    IF Len(patterns) = 0 THEN paragraphs
    ELSE RegexChunking(Tail(patterns), SplitAll(Head(patterns), paragraphs))

\* main.py:107  chunker.chunk(content)[1:]
code_blocks(content) == Tail(RegexChunking(Patterns, <<content>>))

\* the exception class the except clause of clean_chunk catches (line 116)
CleanChunkCatches == "ValueError"

\* main.py:109-118  clean_chunk
clean_chunk(chunk) ==
    LET head == str_split(chunk, "\n", 1) IN
    IF Len(head) # 2
    THEN \* line 111: the unpacking raises ValueError
         IF IsInstance("ValueError", CleanChunkCatches)
         THEN Returned([name |-> "", file_path |-> "", content |-> chunk])
         ELSE Raised("ValueError")
    ELSE LET file_path_str == lstrip(head[1], "## ")
             rest == str_split(head[2], "\n", 2)
         IN IF Len(rest) < 3
            THEN \* line 114: [2] raises IndexError
                 IF IsInstance("IndexError", CleanChunkCatches)
                 THEN Returned([name |-> "", file_path |-> "", content |-> chunk])
                 ELSE Raised("IndexError")
            ELSE Returned([name |-> PathStem(file_path_str),
                           file_path |-> PathStr(file_path_str),
                           content |-> rest[3]])

\* main.py:120  map(clean_chunk, code_blocks), consumed by the comprehension of
\* lines 122-125: the first exception ends the enumeration
CleanAll(blocks) == [i \in 1..Len(blocks) |-> clean_chunk(blocks[i])]

FirstRaise(results) ==
    IF \E i \in 1..Len(results) : results[i].raised # ""
    THEN results[CHOOSE i \in 1..Len(results) :
                    /\ results[i].raised # ""
                    /\ \A j \in 1..(i - 1) : results[j].raised = ""].raised
    ELSE ""

-----------------------------------------------------------------------------
(* Input documents *)

\* blocks of an aggregated markdown dump
BlockPlainA == "## path/A.swift\n\ncode-A\n"
BlockPlainB == "## path/B.swift\n\ncode-B"
BlockFenceA == "## lib/A.swift\n\n~~~~swift\nstruct A\n"
BlockNoHead == "path/C.swift\n\n~~~~swift\nstruct C\n"
BlockNoLine == "junk"

Blocks == {BlockPlainA, BlockPlainB, BlockFenceA, BlockNoHead, BlockNoLine}

\* the blocks of a document are separated by the four-backtick boundary
JoinDocs(seqs) == { str_join(Patterns[1], bs) : bs \in seqs }

\* every document of at most MaxBlocks blocks: the inputs of the splitter
Docs == JoinDocs(UNION { [1..n -> Blocks] : n \in 1..MaxBlocks })

\* the documents that are ingested: a preamble, then well-formed blocks of
\* two types (A and C), at most MaxBlocks blocks in all
Preamble == "# Sources\n\n"
IngestBlocks == {BlockFenceA, BlockNoHead}
IngestDocs ==
    JoinDocs({ <<Preamble>> \o bs :
                 bs \in UNION { [1..n -> IngestBlocks] : n \in 0..(MaxBlocks - 1) } })

-----------------------------------------------------------------------------
(* Enrichment: main.py get_summary, get_embedding, process_chunks *)

\* the dimension of a text-embedding-3-small vector (main.py:61, agent.py:52)
EmbeddingDim == 1536

\* Every list of floats of the model repeats one element, and is written by
\* its length and that element: ListOf(3, 0) is [0, 0, 0], ListOf(0, 0) is [].
ListOf(n, x) == [len |-> n, elem |-> x]

\* len(lst)
list_len(lst) == lst.len

\* lst * n of Python: n copies of the list, one after the other
list_repeat(lst, n) == ListOf(list_len(lst) * n, lst.elem)

\* s.strip(): leading and trailing whitespace removed
Whitespace == " \n\t"

RECURSIVE rstrip(_, _)
rstrip(s, chars) ==
    IF s # "" /\ Contains(chars, CharAt(s, Len(s)))
    THEN rstrip(Slice(s, 1, Len(s) - 1), chars)
    ELSE s

str_strip(s) == rstrip(lstrip(s, Whitespace), Whitespace)

\* what the provider answers to a request that succeeds
ProviderSummary == " A summary.\n"
ProviderEmbedding == ListOf(EmbeddingDim, 1)

\* the ways a provider call can end: it answers, it answers without choices
\* (chat completion only), it raises an error of the provider, or it never
\* answers and the client (main.py:14, default timeout) ends it
SummaryOutcomes == {"ok", "no_choices", "raises", "timeout"}
EmbeddingOutcomes == {"ok", "raises", "timeout"}

\* the exception a provider call that does not answer ends with
ProviderRaises(outcome) ==
    IF outcome = "timeout" THEN "APITimeoutError" ELSE "OpenAIError"

\* try/except: an exception of a caught class becomes the fallback value
Try(result, catches, fallback) ==
    IF result.raised # "" /\ IsInstance(result.raised, catches)
    THEN Returned(fallback)
    ELSE result

\* get_summary with an except clause that catches the error answers of the
\* provider (APIStatusError), which a timeout of the client is not
SummaryCatchesStatusError == "APIStatusError"

\* get_summary with an except clause that catches ValueError alone
SummaryCatchesValueError == "ValueError"

\* the exception class the except clause of get_summary catches (main.py:48)
SummaryCatches == "Exception"

\* main.py:44  response.choices[0].message.content.strip()
SummaryText == str_strip(ProviderSummary)

\* main.py:31-50  get_summary, by the outcome of the provider call
get_summary(outcome) ==
    Try(IF outcome = "ok" THEN Returned(SummaryText)
        ELSE IF outcome = "no_choices" THEN Returned("")
        ELSE Raised(ProviderRaises(outcome)),
        SummaryCatches,
        "Error summarizing content")

\* get_embedding with an except clause that catches ValueError alone
EmbeddingCatchesValueError == "ValueError"

\* the exception class the except clause of get_embedding catches (main.py:59)
EmbeddingCatches == "Exception"

\* main.py:53-61  get_embedding, by the outcome of the provider call
get_embedding(outcome) ==
    Try(IF outcome = "ok" THEN Returned(ProviderEmbedding)
        ELSE Raised(ProviderRaises(outcome)),
        EmbeddingCatches,
        list_repeat(ListOf(1, 0), EmbeddingDim))

\* main.py:68  the fixed corpus label
Corpus == "swiftui-atom-properties"

\* main.py:64-80  the ProcessedChunk that process_chunks returns; created_at
\* (the wall clock, read by no operation) is left out of metadata
ProcessedChunk(chunk, idx, summary, embedding) ==
    [name |-> chunk.name,
     summary |-> summary,
     chunk_index |-> idx,
     content |-> chunk.content,
     metadata |-> [source |-> Corpus,
                   chunk_size |-> Len(chunk.content),
                   file_path |-> chunk.file_path],
     embedding |-> embedding]

\* main.py:85-92  the row insert_chunk sends to the table
InsertData(chunk) ==
    [chunk_idx |-> chunk.chunk_index,
     type_name |-> chunk.name,
     summary |-> chunk.summary,
     content |-> chunk.content,
     metadata |-> chunk.metadata,
     embedding |-> chunk.embedding]

\* insert_chunk with an except clause that catches ValueError alone
InsertCatchesValueError == "ValueError"

\* the exception class the except clause of insert_chunk catches (main.py:96)
InsertCatches == "Exception"

\* main.py:83-98  what insert_chunk returns, by the outcome of the store call
insert_chunk(outcome) ==
    Try(IF outcome = "ok" THEN Returned("result") ELSE Raised("APIError"),
        InsertCatches,
        "None")

-----------------------------------------------------------------------------
(* Ingestion: main.py main, chunk_code *)

NoRet == [op |-> "", arg |-> "", outcome |-> "", data |-> <<>>, raised |-> "", value |-> ""]

Init ==
    /\ document \in IngestDocs
    /\ pc = "main"
    /\ runs = 0
    /\ faults = 0
    /\ chunks = <<>>
    /\ tasks = <<>>
    /\ processed_chunks = <<>>
    /\ insert_results = <<>>
    /\ code_pages = <<>>
    /\ ret = NoRet

\* enumerate over the chunks with ordinals that only named chunks consume
enumerate_named(items) ==
    [i \in 1..Len(items) |->
        [idx |-> Cardinality({ j \in 1..(i - 1) : items[j].name # "" }),
         item |-> items[i]]]

\* main.py:124  enumerate(chunks): every chunk takes the next ordinal, from 0
enumerate(items) == [i \in 1..Len(items) |-> [idx |-> i - 1, item |-> items[i]]]

\* a process_chunks task that has issued both provider calls when it first
\* suspends: it waits for the embedding with the summary still unanswered
NewTaskBothIssued(idx) ==
    [idx |-> idx, at |-> "get_embedding", summary |-> "", embedding |-> ListOf(0, 0),
     summary_outcome |-> "", embedding_outcome |-> ""]

\* main.py:122-125  a process_chunks task, created with its chunk and ordinal;
\* it runs up to its first provider call.  summary_outcome and
\* embedding_outcome record how its provider calls ended ("" for not yet)
NewTask(idx) ==
    [idx |-> idx, at |-> "get_summary", summary |-> "", embedding |-> ListOf(0, 0),
     summary_outcome |-> "", embedding_outcome |-> ""]

\* main.py:65-66  where a task stands with its two provider calls: the summary
\* request is issued when the task first runs and has completed once the task
\* has left line 65; the embedding request is issued when the task reaches
\* line 66 and has completed when the task returns
SummaryCompleted(task) == task.at # "get_summary"
EmbeddingIssued(task) == task.at \in {"get_embedding", "return"}
EmbeddingCompleted(task) == task.at = "return"

\* the position of chunk_code after the splitting: an exception of clean_chunk
\* ends the run; without chunks both gathers return at once
AfterSplit(raised, n) ==
    IF raised # "" THEN "raised"
    ELSE IF n = 0 THEN "done"
    ELSE "gather_process"

\* main.py:134-138 and 101-125: a run of main.py reads the document, splits it
\* and creates one process_chunks task per chunk; each task runs up to its
\* first provider call
ChunkCode ==
    /\ pc \in {"main", "done", "raised"}
    /\ runs < MaxRuns
    /\ LET results == CleanAll(code_blocks(document))
           raised == FirstRaise(results)
           values == [i \in 1..Len(results) |-> results[i].value]
       IN /\ pc' = AfterSplit(raised, Len(results))
          /\ chunks' = IF raised # "" THEN <<>> ELSE values
          /\ tasks' = IF raised # "" THEN <<>>
                      ELSE [i \in 1..Len(values) |-> NewTask(enumerate(values)[i].idx)]
    /\ runs' = runs + 1
    /\ processed_chunks' = <<>>
    /\ insert_results' = <<>>
    /\ UNCHANGED <<document, faults, code_pages, ret>>

\* a failure the environment injects counts against the fault budget
Fault(outcome) == IF outcome = "ok" THEN 0 ELSE 1

\* main.py:127  gather returns once every task has returned
AllReturned(ts) == \A i \in 1..Len(ts) : ts[i].at = "return"

\* a chunk_code that goes on to the inserts as soon as one task has returned
AfterTaskFirstCompleted(raised, ts) ==
    IF raised # "" THEN "raised"
    ELSE IF \E i \in 1..Len(ts) : ts[i].at = "return" THEN "gather_insert"
    ELSE "gather_process"

\* main.py:127  the position of chunk_code after a step of a process_chunks
\* task: gather hands on the exception of a task, and returns the results once
\* every task has returned
AfterTask(raised, ts) ==
    IF raised # "" THEN "raised"
    ELSE IF AllReturned(ts) THEN "gather_insert"
    ELSE "gather_process"

\* main.py:65  the summary call of task i ends; the task goes on to line 66
SummaryReturns(i, outcome) ==
    /\ pc = "gather_process"
    /\ tasks[i].at = "get_summary"
    /\ faults + Fault(outcome) <= MaxFaults
    /\ faults' = faults + Fault(outcome)
    /\ LET r == get_summary(outcome)
           ts == [tasks EXCEPT ![i].at = "get_embedding",
                               ![i].summary = r.value,
                               ![i].summary_outcome = outcome]
       IN /\ pc' = AfterTask(r.raised, ts)
          /\ tasks' = IF r.raised # "" THEN <<>> ELSE ts
    /\ UNCHANGED <<document, runs, chunks, processed_chunks, insert_results,
                   code_pages, ret>>

\* main.py:66-80  the embedding call of task i ends and the task returns its
\* ProcessedChunk; with the last task the gather of line 127 returns and the
\* insert tasks of line 129 are created
EmbeddingReturns(i, outcome) ==
    /\ pc = "gather_process"
    /\ tasks[i].at = "get_embedding"
    /\ faults + Fault(outcome) <= MaxFaults
    /\ faults' = faults + Fault(outcome)
    /\ LET r == get_embedding(outcome)
           ts == [tasks EXCEPT ![i].at = "return",
                               ![i].embedding = r.value,
                               ![i].embedding_outcome = outcome]
           at == AfterTask(r.raised, ts)
       IN /\ pc' = at
          /\ tasks' = IF r.raised # "" THEN <<>> ELSE ts
          /\ processed_chunks' =
                IF at = "gather_insert"
                THEN [k \in 1..Len(ts) |->
                         ProcessedChunk(chunks[k], ts[k].idx, ts[k].summary, ts[k].embedding)]
                ELSE processed_chunks
    /\ UNCHANGED <<document, runs, chunks, insert_results, code_pages, ret>>

\* main.py:131  the position of chunk_code after the insert task of one chunk
\* has ended: gather hands on an exception, and returns after the last task
AfterInsert(raised, done, n) ==
    IF raised # "" THEN "raised"
    ELSE IF done = n THEN "done"
    ELSE "gather_insert"

\* main.py:83-98 and 129-131  the insert tasks run in the order of the chunks
\* (insert_chunk never suspends); each sends its row to the table
InsertChunk(outcome) ==
    /\ pc = "gather_insert"
    /\ Len(insert_results) < Len(processed_chunks)
    /\ faults + Fault(outcome) <= MaxFaults
    /\ faults' = faults + Fault(outcome)
    /\ LET k == Len(insert_results) + 1
           r == insert_chunk(outcome)
       IN /\ code_pages' = IF outcome = "ok"
                           THEN Append(code_pages, InsertData(processed_chunks[k]))
                           ELSE code_pages
          /\ insert_results' = Append(insert_results, r.value)
          /\ pc' = AfterInsert(r.raised, k, Len(processed_chunks))
    /\ UNCHANGED <<document, runs, chunks, tasks, processed_chunks, ret>>

Ingest ==
    \/ ChunkCode
    \/ \E i \in 1..Len(tasks) : \E o \in SummaryOutcomes : SummaryReturns(i, o)
    \/ \E i \in 1..Len(tasks) : \E o \in EmbeddingOutcomes : EmbeddingReturns(i, o)
    \/ \E o \in {"ok", "raises"} : InsertChunk(o)

\* a provider call of some task ends: the provider answers, or raises, or the
\* client's timeout ends a call that is not answered
ProviderCallEnds ==
    \/ \E i \in 1..Len(tasks) : \E o \in SummaryOutcomes : SummaryReturns(i, o)
    \/ \E i \in 1..Len(tasks) : \E o \in EmbeddingOutcomes : EmbeddingReturns(i, o)

\* the next insert task runs
InsertRuns == \E o \in {"ok", "raises"} : InsertChunk(o)

\* ingestion under the scheduling of the event loop: a task whose call has
\* ended is resumed, and no call stays open for ever (main.py:14, the client
\* ends an unanswered request by its timeout)
SpecIngestFair ==
    Init /\ [][Ingest]_vars /\ WF_vars(ProviderCallEnds) /\ WF_vars(InsertRuns)

-----------------------------------------------------------------------------
(* Store queries *)

\* the code points of the characters of the model's texts, in ascending order
\* ("~", the backtick, stands between "_" and "a")
CodePoints ==
    "\t\n !\"#$%&'()*+,-./0123456789:;<=>?@ABCDEFGHIJKLMNOPQRSTUVWXYZ[\\]^_~abcdefghijklmnopqrstuvwxyz{|}"

\* ord(c)
ord(c) == str_find(CodePoints, c, 1)

\* a < b for Python strings: by the first differing code point, a proper
\* prefix first
RECURSIVE str_less(_, _)
str_less(a, b) ==
    IF b = "" THEN FALSE
    ELSE IF a = "" THEN TRUE
    ELSE IF CharAt(a, 1) = CharAt(b, 1) THEN str_less(StrFrom(a, 2), StrFrom(b, 2))
    ELSE ord(CharAt(a, 1)) < ord(CharAt(b, 1))

\* sorted(S) for a set of strings
RECURSIVE sorted(_)
sorted(S) ==
    IF S = {} THEN <<>>
    ELSE LET m == CHOOSE x \in S : \A y \in S \ {x} : str_less(x, y)
         IN <<m>> \o sorted(S \ {m})

\* agent.py:76, 112, 144  the corpus label the three reads filter by
ReadCorpus == "swiftui-atom-properties"

\* a selection that does not look at the corpus label of a row
RECURSIVE SelectRowsAnyCorpus(_, _, _)
SelectRowsAnyCorpus(rows, type_name, by_name) ==
    IF Len(rows) = 0 THEN <<>>
    ELSE (IF by_name => Head(rows).type_name = type_name
          THEN <<Head(rows)>> ELSE <<>>)
            \o SelectRowsAnyCorpus(Tail(rows), type_name, by_name)

\* the rows of the corpus, in table order; with by_name, those of one type
\* (.eq("metadata->>source", ...) and .eq("type_name", ...))
RECURSIVE SelectRows(_, _, _)
SelectRows(rows, type_name, by_name) ==
    IF Len(rows) = 0 THEN <<>>
    ELSE (IF /\ Head(rows).metadata.source = ReadCorpus
             /\ (by_name => Head(rows).type_name = type_name)
          THEN <<Head(rows)>> ELSE <<>>)
            \o SelectRows(Tail(rows), type_name, by_name)

\* .order("chunk_idx"): ascending, rows of equal chunk_idx in table order
RECURSIVE order_by_chunk_idx(_)
order_by_chunk_idx(rows) ==
    IF Len(rows) = 0 THEN <<>>
    ELSE LET k == CHOOSE k \in 1..Len(rows) :
                    /\ \A j \in 1..Len(rows) : rows[k].chunk_idx <= rows[j].chunk_idx
                    /\ \A j \in 1..(k - 1) : rows[j].chunk_idx # rows[k].chunk_idx
         IN <<rows[k]>>
               \o order_by_chunk_idx(SubSeq(rows, 1, k - 1) \o SubSeq(rows, k + 1, Len(rows)))

\* a read that also sees the rows of the running batch that are not inserted yet
QueryTypeNamesUncommitted(table) ==
    LET rows == SelectRows(table, "", FALSE)
        pending == SubSeq(processed_chunks, Len(insert_results) + 1, Len(processed_chunks))
    IN [i \in 1..Len(rows) |-> [type_name |-> rows[i].type_name]]
          \o [i \in 1..Len(pending) |-> [type_name |-> pending[i].name]]

\* agent.py:109-114  select type_name of the rows of the corpus
QueryTypeNames(table) ==
    LET rows == SelectRows(table, "", FALSE) IN
    [i \in 1..Len(rows) |-> [type_name |-> rows[i].type_name]]

\* agent.py:140-147  select content, file_path, chunk_idx of the rows of one
\* type of the corpus, ordered by chunk_idx
QueryCodeForType(table, type_name) ==
    LET rows == order_by_chunk_idx(SelectRows(table, type_name, TRUE)) IN
    [i \in 1..Len(rows) |-> [content |-> rows[i].content,
                             file_path |-> rows[i].metadata.file_path,
                             chunk_idx |-> rows[i].chunk_idx]]

\* agent.py:75  match_count
MatchCount == 5

\* agent.py:71-78  the rows match_code_pages returns: at most match_count rows
\* of the corpus (the ranking is the store's; table order stands for it)
QueryMatchCodePages(table) ==
    LET rows == SelectRows(table, "", FALSE)
        n == IF Len(rows) < MatchCount THEN Len(rows) ELSE MatchCount
    IN [i \in 1..n |-> [type_name |-> rows[i].type_name, content |-> rows[i].content]]

\* "not result" for the response object of execute(): an APIResponse defines
\* neither __bool__ nor __len__, so the object is true whatever rows it holds
NotResult(data) == FALSE

\* iterating the response object itself (agent.py:84) yields its fields,
\* data and count, not the rows
ResponseFields == <<"data", "count">>

-----------------------------------------------------------------------------
(* Retrieval: agent.py get_embedding, get_code, get_type_names, get_code_for_type *)

\* agent.py:44-52  get_embedding of the retriever, by the outcome of the call
agent_get_embedding(outcome) ==
    Try(IF outcome = "ok" THEN Returned(ProviderEmbedding)
        ELSE Raised(ProviderRaises(outcome)),
        "Exception",
        list_repeat(ListOf(0, 0), EmbeddingDim))

\* tools whose except clauses catch the errors of the store alone
ToolCatchesStoreErrors == "APIError"

\* the exception class the except clauses of the three tools catch
\* (agent.py:94, 121, 162)
ToolCatches == "Exception"

\* agent.py:85-89  the text appended for each element: the literal is no
\* f-string, so its braces stay as written
ChunkText(source_code) ==
    "\n            {source_code['type_name']}\n\n            {source_code['content']}\n            "

\* agent.py:92  the separator of the blocks
Separator == "\n\n---\n\n"

\* agent.py:83-92  the blocks joined by the separator
FormatChunks(result) ==
    str_join(Separator, [i \in 1..Len(result) |-> ChunkText(result[i])])

\* what the store call of get_code raises: line 69 does not await
\* get_embedding, so query_embedding is a coroutine object, which the client
\* cannot encode
RpcError == "Object of type coroutine is not JSON serializable"

\* agent.py:67-96  get_code, by the outcome of the store call and its rows
get_code(outcome, data) ==
    Try(IF outcome # "ok" THEN [raised |-> "TypeError", value |-> RpcError]
        ELSE IF NotResult(data) THEN Returned("No relevant source code found")
        ELSE Returned(FormatChunks(ResponseFields)),
        ToolCatches,
        "Error retrieving Source code: " \o RpcError)

\* the names as the store lists them, neither sorted nor made distinct
TypeNamesAsListed(data) == [i \in 1..Len(data) |-> data[i].type_name]

\* agent.py:119  sorted(set(file["type_name"] for file in result.data))
TypeNames(data) == sorted({ data[i].type_name : i \in 1..Len(data) })

\* agent.py:107-123  get_type_names
get_type_names(outcome, data) ==
    Try(IF outcome # "ok" THEN Raised("APIError")
        ELSE IF NotResult(data) THEN Returned(<<>>)
        ELSE Returned(TypeNames(data)),
        ToolCatches,
        <<>>)

\* agent.py:152-157  the text built from the first row
SourceText(row) ==
    "\n        File Path: " \o row.file_path \o "\n        ~~~swift\n        "
        \o row.content \o "\n        ~~~\n        "

\* agent.py:138-164  get_code_for_type
get_code_for_type(outcome, data, type_name) ==
    Try(IF outcome # "ok" THEN Raised("APIError")
        ELSE IF NotResult(data) THEN Returned("No code found for Type: " \o type_name)
        ELSE IF Len(data) = 0 THEN Raised("IndexError")
        ELSE Returned(SourceText(data[1])),
        ToolCatches,
        "")

\* the type names the agent asks for
TypeNameArgs == {"A", "C"}

\* the agent calls get_code; the tool runs without suspending
GetCode(outcome) ==
    /\ LET data == IF outcome = "ok" THEN QueryMatchCodePages(code_pages) ELSE <<>>
           r == get_code(outcome, data)
       IN ret' = [op |-> "get_code", arg |-> "", outcome |-> outcome, data |-> data,
                  raised |-> r.raised, value |-> r.value]
    /\ UNCHANGED <<document, pc, runs, faults, chunks, tasks, processed_chunks,
                   insert_results, code_pages>>

\* the agent calls get_type_names
GetTypeNames(outcome) ==
    /\ faults + Fault(outcome) <= MaxFaults
    /\ faults' = faults + Fault(outcome)
    /\ LET data == IF outcome = "ok" THEN QueryTypeNames(code_pages) ELSE <<>>
           r == get_type_names(outcome, data)
       IN ret' = [op |-> "get_type_names", arg |-> "", outcome |-> outcome,
                  data |-> data, raised |-> r.raised, value |-> r.value]
    /\ UNCHANGED <<document, pc, runs, chunks, tasks, processed_chunks,
                   insert_results, code_pages>>

\* the agent calls get_code_for_type
GetCodeForType(type_name, outcome) ==
    /\ faults + Fault(outcome) <= MaxFaults
    /\ faults' = faults + Fault(outcome)
    /\ LET data == IF outcome = "ok" THEN QueryCodeForType(code_pages, type_name)
                   ELSE <<>>
           r == get_code_for_type(outcome, data, type_name)
       IN ret' = [op |-> "get_code_for_type", arg |-> type_name, outcome |-> outcome,
                  data |-> data, raised |-> r.raised, value |-> r.value]
    /\ UNCHANGED <<document, pc, runs, chunks, tasks, processed_chunks,
                   insert_results, code_pages>>

Retrieve ==
    \/ \E t \in TypeNameArgs : \E o \in {"ok", "raises"} : GetCodeForType(t, o)
    \/ \E o \in {"ok", "raises"} : GetCode(o)
    \/ \E o \in {"ok", "raises"} : GetTypeNames(o)

Next == Ingest \/ Retrieve

\* ingestion and retrieval, interleaved
Spec == Init /\ [][Next]_vars

\* ingestion alone
SpecIngest == Init /\ [][Ingest]_vars

-----------------------------------------------------------------------------
(* A store shared with another corpus *)

\* rows another system wrote to the same table: one of a type this corpus
\* also has (A), one of a type of its own (F)
ForeignCorpus == "another-library"
ForeignRow(type_name, content) ==
    [chunk_idx |-> 0,
     type_name |-> type_name,
     summary |-> "A summary.",
     content |-> content,
     metadata |-> [source |-> ForeignCorpus,
                   chunk_size |-> Len(content),
                   file_path |-> "other/" \o type_name \o ".swift"],
     embedding |-> ProviderEmbedding]
ForeignRows == << ForeignRow("A", "struct X\n"), ForeignRow("F", "struct F\n") >>

\* the document ingested into the shared store: one block of type A, one of C
CorporaDoc == str_join(Patterns[1], <<Preamble, BlockFenceA, BlockNoHead>>)

InitCorpora ==
    /\ document = CorporaDoc
    /\ pc = "main"
    /\ runs = 0
    /\ faults = 0
    /\ chunks = <<>>
    /\ tasks = <<>>
    /\ processed_chunks = <<>>
    /\ insert_results = <<>>
    /\ code_pages = ForeignRows
    /\ ret = NoRet

SpecCorpora == InitCorpora /\ [][Next]_vars

-----------------------------------------------------------------------------
(* The splitter on every document of the input family *)

InitSplit ==
    /\ document \in Docs
    /\ pc = "main"
    /\ runs = 0
    /\ faults = 0
    /\ chunks = <<>>
    /\ tasks = <<>>
    /\ processed_chunks = <<>>
    /\ insert_results = <<>>
    /\ code_pages = <<>>
    /\ ret = NoRet

SpecSplit == InitSplit /\ [][ChunkCode]_vars

-----------------------------------------------------------------------------
(* The two get_embedding functions on every text of the input family *)

\* main.py:53-61  a call of get_embedding(document)
MainGetEmbedding(outcome) ==
    /\ LET r == get_embedding(outcome) IN
          ret' = [op |-> "main.get_embedding", arg |-> "", outcome |-> outcome,
                  data |-> <<>>, raised |-> r.raised, value |-> r.value]
    /\ UNCHANGED <<document, pc, runs, faults, chunks, tasks, processed_chunks,
                   insert_results, code_pages>>

\* agent.py:44-52  an awaited call of get_embedding(document, openai_client)
AgentGetEmbedding(outcome) ==
    /\ LET r == agent_get_embedding(outcome) IN
          ret' = [op |-> "agent.get_embedding", arg |-> "", outcome |-> outcome,
                  data |-> <<>>, raised |-> r.raised, value |-> r.value]
    /\ UNCHANGED <<document, pc, runs, faults, chunks, tasks, processed_chunks,
                   insert_results, code_pages>>

Embed ==
    \/ \E o \in EmbeddingOutcomes : MainGetEmbedding(o)
    \/ \E o \in EmbeddingOutcomes : AgentGetEmbedding(o)

SpecEmbed == InitSplit /\ [][Embed]_vars

-----------------------------------------------------------------------------
(* Claims *)

Tools == {"get_code", "get_type_names", "get_code_for_type"}

\* the content fields of rows, one after the other
RECURSIVE ConcatContent(_)
ConcatContent(rows) ==
    IF Len(rows) = 0 THEN "" ELSE Head(rows).content \o ConcatContent(Tail(rows))

\* the rows carry the ordinals 0..N-1, each once
OrdinalsComplete(rows) == \A i \in 1..Len(rows) : rows[i].chunk_idx = i - 1

\* C1: for a type whose N chunks are stored with the ordinals 0..N-1,
\* get_code_for_type returns a text that contains the content of all N chunks
\* concatenated in ascending ordinal order.
C1_FullSourceInOrdinalOrder ==
    (/\ ret.op = "get_code_for_type"
     /\ ret.outcome = "ok"
     /\ Len(ret.data) >= 1
     /\ OrdinalsComplete(ret.data))
        => Contains(ret.value, ConcatContent(ret.data))

\* C2: when the store holds no row for the requested type name,
\* get_code_for_type returns a non-empty message, never the empty string.
C2_NotFoundIsNotEmpty ==
    (/\ ret.op = "get_code_for_type"
     /\ ret.outcome = "ok"
     /\ Len(ret.data) = 0)
        => (ret.raised = "" /\ ret.value # "")

\* C3: when the similarity search yields zero rows, get_code returns the
\* explicit no-result message, not a block list.
C3_NoResultMessage ==
    (/\ ret.op = "get_code"
     /\ ret.outcome = "ok"
     /\ Len(ret.data) = 0)
        => ret.value = "No relevant source code found"

\* C4: get_type_names returns the type names of the rows of the corpus in
\* ascending order, each exactly once; the empty list on an empty store.
C4_TypeNamesSortedDistinct ==
    (ret.op = "get_type_names" /\ ret.outcome = "ok")
        => /\ ret.raised = ""
           /\ \A i \in 1..(Len(ret.value) - 1) : str_less(ret.value[i], ret.value[i + 1])
           /\ { ret.value[i] : i \in 1..Len(ret.value) }
                 = { ret.data[i].type_name : i \in 1..Len(ret.data) }

\* C4 witness: the store answered with four rows, C before A, each name
\* twice, and the tool returned A, C
C4_Witness ==
    /\ ret.op = "get_type_names"
    /\ ret.outcome = "ok"
    /\ Len(ret.data) = 4
    /\ ret.data[1].type_name = "C"
    /\ ret.data[2].type_name = "A"
    /\ ret.data[3].type_name = "C"
    /\ ret.value = <<"A", "C">>

\* C5: whenever the provider call fails, get_embedding (of main.py and of
\* agent.py) returns a vector of length exactly 1536.
C5_FallbackHasEmbeddingDim ==
    (/\ ret.op \in {"main.get_embedding", "agent.get_embedding"}
     /\ ret.outcome = "raises")
        => (ret.raised = "" /\ list_len(ret.value) = EmbeddingDim)

\* C6: no tool call hands an exception to the agent: whatever the store call
\* does, the tool returns a value, and get_code's value names the error.
C6_NoExceptionReachesAgent ==
    ret.op \in Tools
        => /\ ret.raised = ""
           /\ (ret.op = "get_code" /\ ret.outcome # "ok")
                 => Contains(ret.value, "Error retrieving Source code")

\* C6 witness: the store call of get_code raised and the tool returned the
\* error text
C6_Witness ==
    /\ ret.op = "get_code"
    /\ ret.outcome = "raises"
    /\ ret.raised = ""
    /\ ret.value = "Error retrieving Source code: " \o RpcError

\* C7: whatever provider calls fail, the batch is never aborted: every chunk
\* gets its ProcessedChunk, in order, and every chunk is submitted to the store.
C7_ProviderFailureKeepsBatch ==
    /\ pc # "raised"
    /\ pc \in {"gather_insert", "done"}
          => /\ Len(processed_chunks) = Len(chunks)
             /\ \A k \in 1..Len(chunks) :
                   /\ processed_chunks[k].name = chunks[k].name
                   /\ processed_chunks[k].content = chunks[k].content
                   /\ processed_chunks[k].chunk_index = k - 1
    /\ pc = "done" => Len(insert_results) = Len(chunks)

\* C7 witness: both provider calls of the first chunk failed, the second chunk
\* was enriched, and both rows are in the store
C7_Witness ==
    /\ pc = "done"
    /\ runs = 1
    /\ Len(chunks) = 2
    /\ processed_chunks[1].summary = "Error summarizing content"
    /\ processed_chunks[1].embedding = list_repeat(ListOf(1, 0), EmbeddingDim)
    /\ processed_chunks[2].summary = "A summary."
    /\ processed_chunks[2].embedding = ProviderEmbedding
    /\ code_pages = <<InsertData(processed_chunks[1]), InsertData(processed_chunks[2])>>

\* the rows of the inserts of this run that succeeded, in order
RECURSIVE InsertedRows(_, _)
InsertedRows(results, processed) ==
    IF Len(results) = 0 THEN <<>>
    ELSE (IF Head(results) # "None" THEN <<InsertData(Head(processed))>> ELSE <<>>)
            \o InsertedRows(Tail(results), Tail(processed))

IsSuffix(s, t) ==
    Len(s) <= Len(t) /\ SubSeq(t, Len(t) - Len(s) + 1, Len(t)) = s

\* C8: a failed insert neither ends the batch nor touches the other inserts:
\* the rows this run added to the store are exactly the rows whose own insert
\* succeeded, and at the end every chunk has been submitted.
C8_InsertFailureIsLocal ==
    /\ pc = "raised" => insert_results = <<>>
    /\ pc \in {"gather_insert", "done"}
          => LET rows == InsertedRows(insert_results, processed_chunks) IN
             /\ IsSuffix(rows, code_pages)
             /\ runs = 1 => code_pages = rows
    /\ pc = "done" => Len(insert_results) = Len(processed_chunks)

\* C8 witness: the insert of the first chunk failed, the insert of the second
\* succeeded, and the store holds the second row alone
C8_Witness ==
    /\ pc = "done"
    /\ runs = 1
    /\ insert_results = <<"None", "result">>
    /\ code_pages = <<InsertData(processed_chunks[2])>>

\* the document of the scenario: two blocks and one boundary marker
ScenarioDoc == str_join(Patterns[1], <<BlockPlainA, BlockPlainB>>)

\* C9: splitting the two-block document yields two chunks, named A and B,
\* with the ordinals 0 and 1.
C9_TwoBlocksTwoChunks ==
    (document = ScenarioDoc /\ pc # "main")
        => /\ pc # "raised"
           /\ Len(chunks) = 2
           /\ chunks[1].name = "A"
           /\ chunks[2].name = "B"

\* a block whose header cannot be parsed: no newline, no "## " prefix, or
\* fewer than two further lines after the header line
NoNewline(block) == ~Contains(block, "\n")
MalformedPrefix(block) == Slice(block, 1, 3) # "## "
TooFewLines(block) ==
    /\ Contains(block, "\n")
    /\ Len(str_split(str_split(block, "\n", 1)[2], "\n", -1)) < 3
Unparsable(block) == NoNewline(block) \/ MalformedPrefix(block) \/ TooFewLines(block)

\* C10: every block whose header cannot be parsed is kept as a degenerate
\* chunk (empty name, empty path, the whole block as content), and no such
\* block ends the processing of the document.
C10_DegenerateChunkKept ==
    pc # "main"
        => LET blocks == code_blocks(document) IN
           /\ pc # "raised"
           /\ Len(chunks) = Len(blocks)
           /\ \A i \in 1..Len(blocks) :
                 Unparsable(blocks[i])
                    => chunks[i] = [name |-> "", file_path |-> "", content |-> blocks[i]]

\* s is an initial part of t
IsPrefix(s, t) == Len(s) <= Len(t) /\ SubSeq(t, 1, Len(s)) = s

\* the number of occurrences of p in s, counted from position i, without overlap
RECURSIVE Occurrences(_, _, _)
Occurrences(s, p, i) ==
    LET j == str_find(s, p, i) IN
    IF p = "" \/ j = 0 THEN 0 ELSE 1 + Occurrences(s, p, j + Len(p))

\* the rows of the table with a type name and an ordinal
RowsOf(table, type_name, idx) ==
    { k \in 1..Len(table) : table[k].type_name = type_name /\ table[k].chunk_idx = idx }

\* the append-only half of C11, which holds: no step of ingestion or retrieval
\* updates or deletes a row, the table only grows at its end
StoreOnlyGrows == [][IsPrefix(code_pages, code_pages')]_vars

\* C11: the store is append-only, and ingesting the same chunk set twice
\* leaves two rows for every (type name, ordinal), both returned by the
\* by-name read and both reflected in the source text that get_code_for_type
\* reconstructs: the text holds the content of every one of the rows.
C11_RerunReflectsBothCopies ==
    (/\ pc = "done"
     /\ runs = 2
     /\ Len(chunks) >= 1
     /\ Len(code_pages) = 2 * Len(chunks)
     /\ ret.op = "get_code_for_type"
     /\ ret.outcome = "ok"
     /\ ret.data = QueryCodeForType(code_pages, ret.arg)
     /\ \E k \in 1..Len(chunks) : chunks[k].name = ret.arg)
        => /\ \A k \in 1..Len(chunks) :
                 Cardinality(RowsOf(code_pages, chunks[k].name, k - 1)) = 2
           /\ \A k \in 1..Len(chunks) :
                 chunks[k].name = ret.arg
                    => Cardinality({ j \in 1..Len(ret.data) :
                                       ret.data[j].chunk_idx = k - 1 }) = 2
           /\ \A i \in 1..Len(ret.data) :
                 Occurrences(ret.value, ret.data[i].content, 1)
                    >= Cardinality({ j \in 1..Len(ret.data) :
                                       ret.data[j].content = ret.data[i].content })

\* p occurs in s (for long texts: no recursion over the positions)
Occurs(s, p) == \E i \in 1..Len(s) : Slice(s, i, i + Len(p) - 1) = p

\* the rows of the table that ingestion wrote: those after the foreign rows
IngestedRows == SubSeq(code_pages, Len(ForeignRows) + 1, Len(code_pages))

\* the texts of the foreign rows
ForeignTexts == { ForeignRows[k].content : k \in 1..Len(ForeignRows) }
                  \cup { ForeignRows[k].metadata.file_path : k \in 1..Len(ForeignRows) }

\* C12: every row ingestion writes carries the corpus label the reads filter
\* by.  In a store shared with another corpus, no result of a read holds a
\* foreign row (neither the rows the query returns nor the value of the tool),
\* and every ingested row is selected by each of the three queries.
C12_ReadsScopedToCorpus ==
    /\ \A k \in 1..Len(processed_chunks) : processed_chunks[k].metadata.source = ReadCorpus
    /\ \A k \in 1..Len(IngestedRows) : IngestedRows[k].metadata.source = ReadCorpus
    /\ QueryTypeNames(code_pages)
          = [k \in 1..Len(IngestedRows) |-> [type_name |-> IngestedRows[k].type_name]]
    /\ \A t \in TypeNameArgs \cup {"F"} :
          LET rows == QueryCodeForType(code_pages, t) IN
          { rows[i] : i \in 1..Len(rows) }
            = { [content |-> IngestedRows[k].content,
                 file_path |-> IngestedRows[k].metadata.file_path,
                 chunk_idx |-> IngestedRows[k].chunk_idx] :
                  k \in { k \in 1..Len(IngestedRows) : IngestedRows[k].type_name = t } }
    /\ LET rows == QueryMatchCodePages(code_pages)
           n == IF Len(IngestedRows) < MatchCount THEN Len(IngestedRows) ELSE MatchCount
       IN rows = [k \in 1..n |-> [type_name |-> IngestedRows[k].type_name,
                                  content |-> IngestedRows[k].content]]
    /\ ret.op = "get_type_names"
          => /\ \A i \in 1..Len(ret.data) : ret.data[i].type_name # "F"
             /\ \A i \in 1..Len(ret.value) : ret.value[i] # "F"
    /\ ret.op = "get_code_for_type"
          => /\ \A i \in 1..Len(ret.data) :
                   {ret.data[i].content, ret.data[i].file_path} \cap ForeignTexts = {}
             /\ \A x \in ForeignTexts : ~Occurs(ret.value, x)
    /\ ret.op = "get_code"
          => /\ \A i \in 1..Len(ret.data) : ret.data[i].content \notin ForeignTexts
             /\ \A x \in ForeignTexts : ~Occurs(ret.value, x)

\* C12 witness: the table holds the foreign row of type A and the ingested
\* row of type A, and get_code_for_type("A") returned the ingested one alone
C12_Witness ==
    /\ Len(IngestedRows) >= 1
    /\ ret.op = "get_code_for_type"
    /\ ret.arg = "A"
    /\ ret.outcome = "ok"
    /\ ret.data = <<[content |-> "struct A\n", file_path |-> "lib/A.swift", chunk_idx |-> 0]>>
    /\ Contains(ret.value, "struct A\n")
    /\ ~Contains(ret.value, "struct X\n")

\* C13: for a similarity search that returns n hits (n >= 1), get_code returns
\* min(n, 5) blocks, in the order of the hits, joined by the separator, and
\* the i-th block contains the type name and the content of the i-th hit.
C13_OneBlockPerHit ==
    (/\ ret.op = "get_code"
     /\ ret.outcome = "ok"
     /\ Len(ret.data) >= 1)
        => LET blocks == str_split(ret.value, Separator, -1)
               n == IF Len(ret.data) < MatchCount THEN Len(ret.data) ELSE MatchCount
           IN /\ ret.raised = ""
              /\ Len(blocks) = n
              /\ \A i \in 1..n :
                    /\ Occurs(blocks[i], ret.data[i].type_name)
                    /\ Occurs(blocks[i], ret.data[i].content)

\* the rows a read returned are rows of the table
ReadFromTable(r, table) ==
    /\ Len(r.data) <= Len(table)
    /\ \A i \in 1..Len(r.data) : \E k \in 1..Len(table) :
          /\ r.op \in {"get_type_names", "get_code"}
                => r.data[i].type_name = table[k].type_name
          /\ r.op \in {"get_code_for_type", "get_code"}
                => r.data[i].content = table[k].content
          /\ r.op = "get_code_for_type"
                => /\ r.arg = table[k].type_name
                   /\ r.data[i].chunk_idx = table[k].chunk_idx

\* a step of a retrieval call: every step of ingestion starts a run, moves a
\* task or runs an insert
ReadStep == UNCHANGED <<runs, tasks, insert_results>>

\* what a step of a retrieval call can change, with the call it made
ReadVars == <<document, pc, runs, faults, chunks, tasks, processed_chunks,
              insert_results, code_pages,
              ret.op, ret.arg, ret.outcome, ret.raised, ret.data>>

\* C14: a retrieval call issued at any point of an ingestion run leaves the
\* store and the run as they are, returns a value (it does not fail), and
\* returns only rows that are in the store when it runs: rows of the batch
\* whose insert has not completed are never among them.
C14_ReadsDuringIngestion ==
    [][ReadStep
          => /\ code_pages' = code_pages
             /\ UNCHANGED <<document, pc, chunks, processed_chunks>>
             /\ ret'.op \in Tools
             /\ ret'.raised = ""
             /\ ReadFromTable(ret', code_pages)]_ReadVars

\* C14 witness: get_type_names ran between the two inserts of a batch and
\* returned the one row inserted so far
C14_Witness ==
    /\ pc = "gather_insert"
    /\ runs = 1
    /\ Len(processed_chunks) = 2
    /\ insert_results = <<"result">>
    /\ Len(code_pages) = 1
    /\ ret.op = "get_type_names"
    /\ ret.outcome = "ok"
    /\ ret.data = <<[type_name |-> processed_chunks[1].name]>>
    /\ ret.value = <<processed_chunks[1].name>>

\* C15: for each chunk, the summary request and the embedding request are
\* both issued before either of them completes: in the step in which the
\* summary call of a chunk completes, its embedding request is already issued.
C15_BothCallsInFlight ==
    [][\A i \in 1..Len(tasks) :
          (/\ Len(tasks') = Len(tasks)
           /\ ~SummaryCompleted(tasks[i])
           /\ SummaryCompleted(tasks'[i]))
             => EmbeddingIssued(tasks[i])]_vars

\* C15 as amended: the two provider calls of one chunk are made one after the
\* other: the embedding request of a chunk is issued only when its summary
\* call has completed (answered or failed), and it completes before the task
\* returns.
C15_EmbeddingAfterSummary ==
    \A i \in 1..Len(tasks) :
       /\ EmbeddingIssued(tasks[i]) => tasks[i].summary_outcome \in SummaryOutcomes
       /\ ~SummaryCompleted(tasks[i]) => tasks[i].summary_outcome = ""
       /\ EmbeddingCompleted(tasks[i]) <=> tasks[i].embedding_outcome \in EmbeddingOutcomes

\* C15 witness: the summary call of the first chunk has completed and its
\* embedding call is in flight, while the summary call of the second chunk
\* is still in flight
C15_Witness ==
    /\ pc = "gather_process"
    /\ Len(tasks) = 2
    /\ tasks[1].at = "get_embedding"
    /\ tasks[1].summary_outcome = "ok"
    /\ tasks[1].embedding_outcome = ""
    /\ tasks[2].at = "get_summary"

\* a provider call that failed: it raised, or the client timed it out
Failed(outcome) == outcome \in {"raises", "timeout"}

\* C16: for each chunk, a failed summary call yields the error marker and
\* leaves the embedding to its own call, a failed embedding call yields the
\* zero vector of 1536 elements and leaves the summary to its own call;
\* whatever fails, no task raises and every task returns its record, which
\* holds the two values.
C16_FailuresSubstitutedPerCall ==
    /\ pc # "raised"
    /\ \A i \in 1..Len(tasks) :
          /\ Failed(tasks[i].summary_outcome)
                => tasks[i].summary = "Error summarizing content"
          /\ tasks[i].summary_outcome = "ok" => tasks[i].summary = "A summary."
          /\ Failed(tasks[i].embedding_outcome)
                => tasks[i].embedding = ListOf(EmbeddingDim, 0)
          /\ tasks[i].embedding_outcome = "ok" => tasks[i].embedding = ProviderEmbedding
    /\ pc \in {"gather_insert", "done"}
          => /\ Len(processed_chunks) = Len(tasks)
             /\ \A k \in 1..Len(tasks) :
                   /\ processed_chunks[k].summary = tasks[k].summary
                   /\ processed_chunks[k].embedding = tasks[k].embedding

\* C16 witness: the summary call of the first chunk failed and its embedding
\* call answered, the summary call of the second chunk answered and its
\* embedding call failed; both records were returned
C16_Witness ==
    /\ pc = "gather_insert"
    /\ Len(tasks) = 2
    /\ tasks[1].summary_outcome = "raises"
    /\ tasks[1].embedding_outcome = "ok"
    /\ tasks[2].summary_outcome = "ok"
    /\ tasks[2].embedding_outcome = "raises"
    /\ processed_chunks[1].summary = "Error summarizing content"
    /\ processed_chunks[1].embedding = ProviderEmbedding
    /\ processed_chunks[2].summary = "A summary."
    /\ processed_chunks[2].embedding = ListOf(EmbeddingDim, 0)

\* the chunk clean_chunk makes of a block it cannot parse
Degenerate(chunk, block) == chunk = [name |-> "", file_path |-> "", content |-> block]

\* the number of parsed chunks among the first n
ParsedBefore(n) ==
    Cardinality({ j \in 1..n : ~Degenerate(chunks[j], code_blocks(document)[j]) })

\* C17: ordinals are assigned by enumerating only the successfully parsed
\* blocks, from 0: a degenerate block consumes no ordinal, and the parsed
\* blocks carry 0, 1, 2, ... in source order.
C17_OrdinalsCountParsedBlocks ==
    pc \in {"gather_process", "done"}
        => \A i \in 1..Len(tasks) :
              ~Degenerate(chunks[i], code_blocks(document)[i])
                 => tasks[i].idx = ParsedBefore(i - 1)

\* C17 as amended: ordinals are assigned by enumerating every chunk of the
\* document, degenerate chunks included, from 0: the chunk of the k-th block
\* after the first carries the ordinal k - 1 (a run that clean_chunk ends with
\* an exception assigns no ordinal).
C17_OrdinalsCountAllBlocks ==
    /\ pc = "raised" => tasks = <<>>
    /\ pc \in {"gather_process", "done"}
          => /\ Len(tasks) = Len(code_blocks(document))
             /\ \A i \in 1..Len(tasks) : tasks[i].idx = i - 1

\* C17 witness: the second block is degenerate and took the ordinal 0, the
\* third block was parsed as A and took the ordinal 1
C17_Witness ==
    /\ pc = "gather_process"
    /\ Len(chunks) = 2
    /\ Degenerate(chunks[1], BlockNoLine)
    /\ tasks[1].idx = 0
    /\ chunks[2].name = "A"
    /\ tasks[2].idx = 1

\* a call that the timeout ended is given the substitute of a failed call
TimeoutsSubstituted ==
    \A i \in 1..Len(tasks) :
       /\ tasks[i].summary_outcome = "timeout"
             => tasks[i].summary = "Error summarizing content"
       /\ tasks[i].embedding_outcome = "timeout"
             => tasks[i].embedding = ListOf(EmbeddingDim, 0)

\* every chunk of the batch has been submitted to the store
BatchSubmitted == pc = "done" /\ Len(insert_results) = Len(chunks)

\* C18: a batch whose provider calls may go unanswered still completes: a
\* call the timeout ends gets the failure substitute, and every batch that
\* has started enrichment eventually has every chunk submitted to the store.
C18_BatchEventuallySubmitted ==
    /\ []TimeoutsSubstituted
    /\ (pc = "gather_process") ~> BatchSubmitted

\* C18 witness: the summary call of the first chunk was ended by the timeout,
\* the chunk got the error marker, and both chunks were submitted
C18_Witness ==
    /\ BatchSubmitted
    /\ Len(chunks) = 2
    /\ tasks[1].summary_outcome = "timeout"
    /\ processed_chunks[1].summary = "Error summarizing content"
    /\ Len(code_pages) = 2

\* C19: within a batch no chunk is inserted before the enrichment of every
\* chunk of the batch has completed: while a task is still enriching, no
\* insert of the batch has run (in the first run the store is still empty),
\* and once an insert has run every task has returned.
C19_InsertsAfterAllEnrichment ==
    /\ pc = "gather_process"
          => /\ insert_results = <<>>
             /\ runs = 1 => code_pages = <<>>
    /\ insert_results # <<>>
          => /\ pc \in {"gather_insert", "done"}
             /\ Len(tasks) = Len(chunks)
             /\ AllReturned(tasks)

\* C19 witness: the first chunk is enriched, the second still waits for its
\* summary, and nothing of the batch is in the store
C19_Witness ==
    /\ pc = "gather_process"
    /\ runs = 1
    /\ Len(tasks) = 2
    /\ tasks[1].at = "return"
    /\ tasks[2].at = "get_summary"
    /\ insert_results = <<>>
    /\ code_pages = <<>>

====
